---- MODULE Spec2Model ----
(***************************************************************************)
(* LocalLens: the processing queue and scheduler of                        *)
(* backend/app/services/processing_service.py with its callers in          *)
(* backend/app/api/routes/processing.py, and the face identity resolver.   *)
(*                                                                         *)
(* The relational store is the durable state (queue, photos); every        *)
(* worker thread owns a SQLAlchemy session whose uncommitted writes are    *)
(* kept in sess until a commit makes them durable.  One action is one      *)
(* stretch of a handler between two accesses to shared state (a commit, a  *)
(* query, a section under _processing_lock).                               *)
(***************************************************************************)
EXTENDS Integers, Sequences, FiniteSets, TLC

VARIABLES
    queue,      \* processing_queue table: id -> row (durable)
    photos,     \* photos table: id -> row (durable)
    clock,      \* number of rows ever inserted into processing_queue (created_at)
    pstate,     \* _processing_state, guarded by _processing_lock
    wk,         \* per worker thread: position and locals of its run
    sess,       \* per worker thread: uncommitted writes of its session
    faces,      \* faces table: id -> row (durable)
    persons,    \* people table with photo_people: id -> row (durable)
    findex,     \* face vector index: embedding id -> stored embedding
    nface,      \* number of Face objects ever constructed (uuid4 source)
    fr,         \* the face-detection step in progress and its session
    iindex,     \* image vector index: photo ids by similarity to the query text
    resp        \* what the last merge or search request returned

fvars == <<faces, persons, findex, nface, fr, iindex, resp>>

vars == <<queue, photos, clock, pstate, wk, sess, faces, persons, findex,
          nface, fr, iindex, resp>>

-----------------------------------------------------------------------------
(* Bounds *)

MaxQueue == 2       \* rows ever inserted into processing_queue

Workers == {"w1", "w2"}
\* the library imported before the runs start: photo 1 is an image, photo 2 a video
PhotoIds == {1, 2}
\* the task types the callers of queue_photo_for_processing pass
TaskTypes == {"full", "faces"}
\* batch_size of start_processing and reprocess_photo
BatchSizes == {1, 2}
MaxFaces == 3       \* faces ever detected
MaxPhotos == 3      \* photos of the library that is searched

\* embeddings of detected faces, as positions on a line
Points == {0, 1, 2}
\* cosine distance < 0.6, in tenths
Threshold == 6
NoId == 0
NoMax == -1          \* max_items = None

Terminal == {"completed", "failed"}


-----------------------------------------------------------------------------
(* Helpers over the queue table *)

MaxOf(S) == IF S = {} THEN 0 ELSE CHOOSE x \in S : \A y \in S : y <= x

\* SQLite rowid for INTEGER PRIMARY KEY without AUTOINCREMENT: max(rowid)+1
NewId(q) == MaxOf(DOMAIN q) + 1

\* ProcessingQueue(photo_id, task_type, status="pending") with column defaults
NewItem(p, t, prio, now) ==
    [photo |-> p, task |-> t, status |-> "pending", priority |-> prio,
     err |-> FALSE, created |-> now]

InsertRowDedup(q, row) ==
    IF \E i \in DOMAIN q : q[i].photo = row.photo /\ q[i].task = row.task
    THEN q
    ELSE [i \in DOMAIN q \cup {MaxOf(DOMAIN q) + 1} |->
            IF i \in DOMAIN q THEN q[i] ELSE row]

\* db.add(queue_item); db.commit()
InsertRow(q, row) == [i \in DOMAIN q \cup {NewId(q)} |->
                        IF i \in DOMAIN q THEN q[i] ELSE row]

PendingOrFailedIds(q) == {i \in DOMAIN q : q[i].status \in {"pending", "failed"}}

\* filter(ProcessingQueue.status == "pending")
PendingIds(q) == {i \in DOMAIN q : q[i].status = "pending"}

BeforeById(q, i, j) == i < j

\* order_by(priority.desc()): SQLite scans the table in rowid order and the
\* sorter keeps that order among equal keys
Before(q, i, j) ==
    \/ q[i].priority > q[j].priority
    \/ q[i].priority = q[j].priority /\ i < j

RECURSIVE SortIds(_, _)
SortIds(q, S) ==
    IF S = {} THEN <<>>
    ELSE LET first == CHOOSE i \in S : \A j \in S \ {i} : Before(q, i, j)
         IN  <<first>> \o SortIds(q, S \ {first})

OldestPending(q) ==
    IF PendingIds(q) = {} THEN <<>>
    ELSE <<CHOOSE i \in PendingIds(q) : \A j \in PendingIds(q) : i <= j>>

OrderedPending(q) == SortIds(q, PendingIds(q))

\* .limit(n)
Take(s, n) == SubSeq(s, 1, IF n < Len(s) THEN n ELSE Len(s))

Min2(a, b) == IF a < b THEN a ELSE b

IsVideo(p) == photos[p].is_video

-----------------------------------------------------------------------------
(* Initial state: empty queue, imported and unprocessed photos, no run *)

\* moved counts the items a continuous run has taken out of pending (the code
\* keeps no such count: it is there for the properties)
IdleWorker ==
    [pc |-> "idle", kind |-> "none", items |-> <<>>, idx |-> 0, cur |-> NoId,
     processed |-> 0, max |-> NoMax, out |-> "ok", ret |-> NoMax, moved |-> 0]

\* the run has returned n to its wrapper in routes/processing.py
Returned(k, n) == [IdleWorker EXCEPT !.pc = "done", !.kind = k, !.ret = n]

CleanSession == [flags |-> {}, photo |-> NoId, status |-> "none"]

InitPState ==
    [is_running |-> FALSE, current_photo |-> NoId, processed_count |-> 0,
     total_count |-> 0, current_step |-> "", stop_requested |-> FALSE]

InitPhoto(v) ==
    [is_video |-> v, is_processed |-> FALSE, has_embeddings |-> FALSE,
     has_faces_processed |-> FALSE, thumb |-> FALSE]

\* no face-detection step in progress
IdleResolver ==
    [pc |-> "idle", photo |-> NoId, todo |-> <<>>, cur |-> NoId,
     done |-> FALSE, had |-> FALSE, overlap |-> FALSE, sf |-> <<>>,
     sp |-> <<>>]

\* no request answered yet
NoResponse == [op |-> "none"]

Init ==
    /\ iindex = <<>>
    /\ resp = NoResponse
    /\ faces = <<>>
    /\ persons = <<>>
    /\ findex = <<>>
    /\ nface = 0
    /\ fr = IdleResolver
    /\ queue = <<>>
    /\ photos = [p \in PhotoIds |-> InitPhoto(p = 2)]
    /\ clock = 0
    /\ pstate = InitPState
    /\ wk = [w \in Workers |-> IdleWorker]
    /\ sess = [w \in Workers |-> CleanSession]

-----------------------------------------------------------------------------
(* Session and row helpers *)

Set(w, r) == wk' = [wk EXCEPT ![w] = r]

\* the row a loaded ORM object stands for: primary key and created_at
Ref(q, i) == [id |-> i, created |-> q[i].created]

\* UPDATE processing_queue SET status=?, error_message=? WHERE id=?
WriteItem(q, i, st, e) == [q EXCEPT ![i].status = st, ![i].err = e]

\* UPDATE photos SET <flag>=1 ... WHERE id=?  for the flags set in the session
WritePhoto(ph, p, flags) ==
    IF p = NoId THEN ph
    ELSE [ph EXCEPT ![p] =
            [is_video |-> @.is_video,
             is_processed |-> @.is_processed \/ "is_processed" \in flags,
             has_embeddings |-> @.has_embeddings \/ "has_embeddings" \in flags,
             has_faces_processed |-> @.has_faces_processed
                                        \/ "has_faces_processed" \in flags,
             thumb |-> @.thumb \/ "thumb" \in flags]]

\* an exception leaves the run: StaleDataError / ObjectDeletedError on a row
\* deleted under the worker; the wrappers of routes/processing.py print it and
\* close the session, nothing is returned and nothing after the loop runs
Abort(w) ==
    /\ Set(w, IdleWorker)
    /\ sess' = [sess EXCEPT ![w] = CleanSession]

-----------------------------------------------------------------------------
(* Enrichment operations: what each leaves in the session for photo p.     *)
(* okT, okE, okF: whether the thumbnail, embedding and face steps succeed  *)
(* (a step that fails catches its exception and returns False / 0).  The   *)
(* steps of one item read the same source file: they are run with one      *)
(* outcome, the file being readable or not.                                *)

ThumbFlags(okT) == IF okT THEN {"thumb"} ELSE {}

EmbedFlags(p, okE) == IF ~IsVideo(p) /\ okE THEN {"has_embeddings"} ELSE {}

FaceFlags(p, okF) == IF ~IsVideo(p) /\ okF THEN {"has_faces_processed"} ELSE {}

\* a step reported failure although the photo is of a kind it handles
StepFailed(p, t, okT, okE, okF) ==
    \/ t \in {"full", "thumbnails"} /\ ~okT
    \/ t \in {"full", "embeddings"} /\ ~IsVideo(p) /\ ~okE
    \/ t \in {"full", "faces"} /\ ~IsVideo(p) /\ ~okF

\* the source file of a photo as generate_thumbnails finds it: readable,
\* there but not decodable, or not there
Sources == {"ok", "undecodable", "missing"}

DispatchFlagsUnmarked(p, t, okT, okE, okF) ==
    IF t \in {"full", "thumbnails"} THEN ThumbFlags(okT) ELSE {}

\* the dispatch of process_queue on item.task_type
DispatchFlags(p, t, okT, okE, okF) ==
    CASE t = "full" -> ThumbFlags(okT) \cup EmbedFlags(p, okE)
                          \cup FaceFlags(p, okF) \cup {"is_processed"}
      [] t = "thumbnails" -> ThumbFlags(okT)
      [] t = "embeddings" -> EmbedFlags(p, okE)
      [] t = "faces" -> FaceFlags(p, okF)
      [] OTHER -> {}

TerminalStatusAnyFailure(out) == IF out = "ok" THEN "completed" ELSE "failed"

TerminalStatusNeedsPhoto(out) ==
    IF out \in {"raised", "nophoto"} THEN "failed" ELSE "completed"

\* item.status after the try block
TerminalStatus(out) == IF out = "raised" THEN "failed" ELSE "completed"

CommitItemDeferred(q, i, st) == q

\* item.status / item.error_message and the commit that follows the try block
CommitItem(q, i, st) ==
    WriteItem(q, i, st, IF st = "failed" THEN TRUE ELSE q[i].err)

-----------------------------------------------------------------------------
(* Callers: enqueue, requeue_videos, requestStop *)

Enqueue(p, t) ==
    /\ clock < MaxQueue
    /\ queue' = InsertRow(queue, NewItem(p, t, 0, clock + 1))
    /\ clock' = clock + 1
    /\ UNCHANGED <<photos, pstate, wk, sess>>
    /\ UNCHANGED fvars

\* routes/processing.py requeue_videos, for a library with at most one video:
\* its queue rows are deleted and a pending row of priority 1 is added
RequeueVideos ==
    /\ clock < MaxQueue
    /\ \E v \in PhotoIds \cap DOMAIN photos :
         /\ IsVideo(v)
         /\ LET kept == {i \in DOMAIN queue : queue[i].photo # v}
                q1 == [i \in kept |-> queue[i]]
            IN  queue' = InsertRow(q1, NewItem(v, "full", 1, clock + 1))
         /\ photos' = [photos EXCEPT ![v].is_processed = FALSE,
                                     ![v].thumb = FALSE]
    /\ clock' = clock + 1
    /\ UNCHANGED <<pstate, wk, sess>>
    /\ UNCHANGED fvars

RequestStop ==
    /\ pstate' = [pstate EXCEPT !.stop_requested = TRUE]
    /\ UNCHANGED <<queue, photos, clock, wk, sess>>
    /\ UNCHANGED fvars

-----------------------------------------------------------------------------
(* runBatch: process_queue(batch_size), started by start_processing *)

StartBatch(w, n) ==
    /\ wk[w].pc = "idle"
    /\ Set(w, [IdleWorker EXCEPT !.pc = "b_select", !.kind = "batch", !.max = n])
    /\ UNCHANGED <<queue, photos, clock, pstate, sess>>
    /\ UNCHANGED fvars

\* lines 331-335
BSelect(w) ==
    /\ wk[w].pc = "b_select"
    /\ LET ids == Take(OrderedPending(queue), wk[w].max)
           its == [k \in 1..Len(ids) |-> Ref(queue, ids[k])]
       IN  IF its = <<>>
           THEN Set(w, Returned("batch", 0))
           ELSE Set(w, [wk[w] EXCEPT !.pc = "b_mark", !.items = its, !.idx = 1,
                                     !.processed = 0, !.max = NoMax])
    /\ UNCHANGED <<queue, photos, clock, pstate, sess>>
    /\ UNCHANGED fvars

\* lines 337-339
BMark(w) ==
    /\ wk[w].pc = "b_mark"
    /\ LET i == wk[w].items[wk[w].idx].id
       IN  IF i \notin DOMAIN queue
           THEN Abort(w) /\ UNCHANGED queue
           ELSE /\ queue' = WriteItem(queue, i, "processing", queue[i].err)
                /\ Set(w, [wk[w] EXCEPT !.pc = "b_dispatch", !.cur = i,
                                        !.out = "ok"])
                /\ UNCHANGED sess
    /\ UNCHANGED <<photos, clock, pstate>>
    /\ UNCHANGED fvars

\* lines 341-353: the photo lookup and the operation of the task type; no
\* operation and no commit when the photo is not found
BDispatch(w) ==
    /\ wk[w].pc = "b_dispatch"
    /\ LET i == wk[w].cur
       IN  IF i \notin DOMAIN queue
           THEN Abort(w)
           ELSE \/ /\ Set(w, [wk[w] EXCEPT !.pc = "b_finish", !.out = "raised"])
                   /\ UNCHANGED sess
                \/ /\ queue[i].photo \notin DOMAIN photos
                   /\ Set(w, [wk[w] EXCEPT !.pc = "b_finish", !.out = "nophoto"])
                   /\ UNCHANGED sess
                \/ \E src \in Sources :
                     LET p == queue[i].photo
                         t == queue[i].task
                         okT == src = "ok"
                         okE == okT
                         okF == okT
                     IN  /\ p \in DOMAIN photos
                         /\ sess' = [sess EXCEPT ![w] =
                                 [flags |-> DispatchFlags(p, t, okT, okE, okF),
                                  photo |-> p, status |-> "none"]]
                         /\ Set(w, [wk[w] EXCEPT !.pc = "b_commit",
                                      !.out = IF ~StepFailed(p, t, okT, okE, okF)
                                              THEN "ok"
                                              ELSE IF src = "missing"
                                              THEN "nofile" ELSE "stepfail"])
    /\ UNCHANGED <<queue, photos, clock, pstate>>
    /\ UNCHANGED fvars

\* line 315 (task full) or line 355
BCommit(w) ==
    /\ wk[w].pc = "b_commit"
    /\ photos' = WritePhoto(photos, sess[w].photo, sess[w].flags)
    /\ sess' = [sess EXCEPT ![w] = CleanSession]
    /\ Set(w, [wk[w] EXCEPT !.pc = "b_finish"])
    /\ UNCHANGED <<queue, clock, pstate>>
    /\ UNCHANGED fvars

\* lines 357-366
BFinish(w) ==
    /\ wk[w].pc = "b_finish"
    /\ LET i == wk[w].cur
           st == TerminalStatus(wk[w].out)
           n == wk[w].processed + (IF st = "completed" THEN 1 ELSE 0)
       IN  IF i \notin DOMAIN queue
           THEN Abort(w) /\ UNCHANGED queue
           ELSE /\ queue' = CommitItem(queue, i, st)
                /\ sess' = [sess EXCEPT ![w] = CleanSession]
                /\ IF wk[w].idx < Len(wk[w].items)
                   THEN Set(w, [wk[w] EXCEPT !.pc = "b_mark", !.idx = @ + 1,
                                             !.cur = NoId, !.processed = n,
                                             !.out = "ok"])
                   ELSE Set(w, Returned("batch", n))
    /\ UNCHANGED <<photos, clock, pstate>>
    /\ UNCHANGED fvars

-----------------------------------------------------------------------------
(* runContinuous: process_continuous(max_items), started by                *)
(* start_continuous_processing                                             *)

MaxChoices == {NoMax, 0, 1}

\* `if max_items:` is false for None and for 0
HasMax(m) == m # NoMax /\ m # 0

\* the guard under _processing_lock, lines 373-375
MayStartAlways(st) == TRUE

MayStart(st) == ~st.is_running

ReadsStopMidItem(pc) == pc \in {"c_top", "c_embed"}

\* where the loop reads stop_requested, lines 394-396
ReadsStop(pc) == pc = "c_top"

\* the route returns "already_running" without a task when the flag is set
StartCont(w, m) ==
    /\ wk[w].pc = "idle"
    /\ ~pstate.is_running
    /\ Set(w, [IdleWorker EXCEPT !.pc = "c_start", !.kind = "cont", !.max = m])
    /\ UNCHANGED <<queue, photos, clock, pstate, sess>>
    /\ UNCHANGED fvars

\* lines 373-378
CStart(w) ==
    /\ wk[w].pc = "c_start"
    /\ IF MayStart(pstate)
       THEN /\ pstate' = [pstate EXCEPT !.is_running = TRUE,
                                        !.stop_requested = FALSE,
                                        !.processed_count = 0]
            /\ Set(w, [wk[w] EXCEPT !.pc = "c_count"])
       ELSE /\ Set(w, Returned("refused", 0))
            /\ UNCHANGED pstate
    /\ UNCHANGED <<queue, photos, clock, sess>>
    /\ UNCHANGED fvars

\* lines 380-391
CCount(w) ==
    /\ wk[w].pc = "c_count"
    /\ LET n == Cardinality(PendingIds(queue))
           total == IF HasMax(wk[w].max) THEN Min2(n, wk[w].max) ELSE n
       IN  pstate' = [pstate EXCEPT !.total_count = total]
    /\ Set(w, [wk[w] EXCEPT !.pc = "c_top", !.processed = 0])
    /\ UNCHANGED <<queue, photos, clock, sess>>
    /\ UNCHANGED fvars

\* lines 394-396 with the flag set: break
ObserveStop(w) ==
    /\ wk[w].kind = "cont"
    /\ ReadsStop(wk[w].pc)
    /\ pstate.stop_requested
    /\ Set(w, [wk[w] EXCEPT !.pc = "c_exit"])
    /\ UNCHANGED <<queue, photos, clock, pstate, sess>>
    /\ UNCHANGED fvars

\* lines 394-399 with the flag clear
CTop(w) ==
    /\ wk[w].pc = "c_top"
    /\ ~pstate.stop_requested
    /\ IF HasMax(wk[w].max) /\ wk[w].processed >= wk[w].max
       THEN Set(w, [wk[w] EXCEPT !.pc = "c_exit"])
       ELSE Set(w, [wk[w] EXCEPT !.pc = "c_select"])
    /\ UNCHANGED <<queue, photos, clock, pstate, sess>>
    /\ UNCHANGED fvars

\* lines 401-406
CSelect(w) ==
    /\ wk[w].pc = "c_select"
    /\ LET ids == Take(OrderedPending(queue), 1)
       IN  IF ids = <<>>
           THEN Set(w, [wk[w] EXCEPT !.pc = "c_exit"])
           ELSE Set(w, [wk[w] EXCEPT !.pc = "c_mark",
                                     !.items = <<Ref(queue, ids[1])>>, !.idx = 1])
    /\ UNCHANGED <<queue, photos, clock, pstate, sess>>
    /\ UNCHANGED fvars

\* lines 408-410
CMark(w) ==
    /\ wk[w].pc = "c_mark"
    /\ LET i == wk[w].items[1].id
       IN  IF i \notin DOMAIN queue
           THEN Abort(w) /\ UNCHANGED queue
           ELSE /\ queue' = WriteItem(queue, i, "processing", queue[i].err)
                /\ Set(w, [wk[w] EXCEPT !.pc = "c_photo", !.cur = i, !.out = "ok",
                                        !.items = <<>>, !.idx = 0,
                                        !.moved = @ + 1])
                /\ UNCHANGED sess
    /\ UNCHANGED <<photos, clock, pstate>>
    /\ UNCHANGED fvars

\* lines 413-416; the body of `if photo:` is skipped when the photo is not found
CPhoto(w) ==
    /\ wk[w].pc = "c_photo"
    /\ LET i == wk[w].cur
       IN  IF i \notin DOMAIN queue
           THEN Abort(w) /\ UNCHANGED pstate
           ELSE \/ /\ Set(w, [wk[w] EXCEPT !.pc = "c_finish", !.out = "raised"])
                   /\ UNCHANGED <<sess, pstate>>
                \/ /\ queue[i].photo \notin DOMAIN photos
                   /\ Set(w, [wk[w] EXCEPT !.pc = "c_finish", !.out = "nophoto"])
                   /\ UNCHANGED <<sess, pstate>>
                \/ /\ queue[i].photo \in DOMAIN photos
                   /\ pstate' = [pstate EXCEPT !.current_photo = queue[i].photo]
                   /\ sess' = [sess EXCEPT ![w] =
                                 [flags |-> {}, photo |-> queue[i].photo,
                                  status |-> "none"]]
                   /\ Set(w, [wk[w] EXCEPT !.pc = "c_thumb"])
    /\ UNCHANGED <<queue, photos, clock>>
    /\ UNCHANGED fvars

\* one enrichment step of the loop body: current_step is set under the lock,
\* then the step runs on the session's photo
CStep(w, here, step, flags, failed, next) ==
    /\ wk[w].pc = here
    /\ pstate' = [pstate EXCEPT !.current_step = step]
    /\ sess' = [sess EXCEPT ![w].flags = @ \cup flags]
    /\ Set(w, [wk[w] EXCEPT !.pc = next,
                            !.out = IF failed THEN "stepfail" ELSE @])
    /\ UNCHANGED <<queue, photos, clock>>
    /\ UNCHANGED fvars

\* lines 419-421
CThumb(w) ==
    \E ok \in BOOLEAN :
        CStep(w, "c_thumb", "thumbnails", ThumbFlags(ok), ~ok, "c_embed")

\* lines 423-425
CEmbed(w) ==
    LET ok == wk[w].out # "stepfail" IN
        CStep(w, "c_embed", "embeddings", EmbedFlags(sess[w].photo, ok),
              ~IsVideo(sess[w].photo) /\ ~ok, "c_faces")

\* lines 427-429
CFaces(w) ==
    LET ok == wk[w].out # "stepfail" IN
        CStep(w, "c_faces", "faces", FaceFlags(sess[w].photo, ok),
              ~IsVideo(sess[w].photo) /\ ~ok, "c_tags")

\* lines 431-433
CTags(w) == CStep(w, "c_tags", "tags", {}, FALSE, "c_commit")

\* lines 435-436
CCommit(w) ==
    /\ wk[w].pc = "c_commit"
    /\ photos' = WritePhoto(photos, sess[w].photo,
                            sess[w].flags \cup {"is_processed"})
    /\ sess' = [sess EXCEPT ![w] = CleanSession]
    /\ Set(w, [wk[w] EXCEPT !.pc = "c_finish"])
    /\ UNCHANGED <<queue, clock, pstate>>
    /\ UNCHANGED fvars

\* lines 438-455
CFinish(w) ==
    /\ wk[w].pc = "c_finish"
    /\ LET i == wk[w].cur
           st == TerminalStatus(wk[w].out)
           n == wk[w].processed + (IF st = "completed" THEN 1 ELSE 0)
       IN  IF i \notin DOMAIN queue
           THEN Abort(w) /\ UNCHANGED <<queue, pstate>>
           ELSE /\ queue' = CommitItem(queue, i, st)
                /\ pstate' = [pstate EXCEPT !.processed_count =
                                 IF st = "completed" THEN n ELSE @]
                /\ sess' = [sess EXCEPT ![w] = CleanSession]
                /\ Set(w, [wk[w] EXCEPT !.pc = "c_top", !.cur = NoId,
                                        !.out = "ok", !.processed = n])
    /\ UNCHANGED <<photos, clock>>
    /\ UNCHANGED fvars

\* lines 457-462
CExit(w) ==
    /\ wk[w].pc = "c_exit"
    /\ pstate' = [pstate EXCEPT !.is_running = FALSE, !.current_photo = NoId,
                                !.current_step = ""]
    /\ Set(w, Returned("cont", wk[w].processed))
    /\ sess' = [sess EXCEPT ![w] = CleanSession]
    /\ UNCHANGED <<queue, photos, clock>>
    /\ UNCHANGED fvars

\* run_processing_batch / run_continuous_processing after the call: the
\* count is printed, the session closed and the thread is free again
ThreadEnd(w) ==
    /\ wk[w].pc = "done"
    /\ Set(w, IdleWorker)
    /\ UNCHANGED <<queue, photos, clock, pstate, sess>>
    /\ UNCHANGED fvars

-----------------------------------------------------------------------------
(* The process dies and is started again: threads, sessions and the module *)
(* globals are gone, the relational store keeps what was committed         *)

Crash ==
    /\ \E w \in Workers : wk[w].pc # "idle"
    /\ wk' = [w \in Workers |-> IdleWorker]
    /\ sess' = [w \in Workers |-> CleanSession]
    /\ pstate' = InitPState
    /\ UNCHANGED <<queue, photos, clock>>
    /\ fr' = IdleResolver
    /\ UNCHANGED <<faces, persons, findex, nface, iindex, resp>>

-----------------------------------------------------------------------------
(* Face detection and the identity resolver: process_faces,                *)
(* _match_face_to_person and _create_person_for_face, run by process_queue *)
(* for a task "faces", and delete_person of routes/people.py.  The face    *)
(* index is not part of the transaction: an insert is there at once.       *)

Abs(x) == IF x < 0 THEN -x ELSE x

\* cosine distance of two embeddings, in tenths
Dist(a, b) == 5 * Abs(a - b)

\* how many faces detect_faces finds in one photo
DetCounts == {0, 1, 2}

\* what detect_faces may return for one photo: up to n faces
DetSeqs(n) == UNION {[1..k -> Points] : k \in {c \in DetCounts : c <= n}}

\* Face(photo_id=photo.id, ..., embedding_id=embedding_id): person_id and the
\* primary key are NULL until assigned / flushed
NewFace(p) == [photo |-> p, person |-> NoId, id |-> NoId]

\* f with the entry k |-> v added or replaced
Put(f, k, v) == [x \in DOMAIN f \cup {k} |-> IF x = k THEN v ELSE f[x]]

\* primary keys of faces, committed or flushed in the session
UsedFaceIds(sf) == DOMAIN faces \cup ({sf[e].id : e \in DOMAIN sf} \ {NoId})

\* db.flush(): the pending Face rows get their primary keys, in the order added
RECURSIVE FlushFaces(_, _)
FlushFaces(sf, used) ==
    LET pend == {e \in DOMAIN sf : sf[e].id = NoId}
    IN  IF pend = {} THEN sf
        ELSE LET e == CHOOSE x \in pend : \A y \in pend : x <= y
                 n == MaxOf(used) + 1
             IN  FlushFaces([sf EXCEPT ![e].id = n], used \cup {n})

\* db.query(Face).filter(Face.embedding_id == e).first().person_id: committed
\* rows and the rows of the own session (the sessions of the background tasks
\* autoflush before a query); NoId when no row is found or person_id is NULL
PersonOfEmb(e) ==
    IF \E f \in DOMAIN faces : faces[f].emb = e
    THEN faces[CHOOSE f \in DOMAIN faces : faces[f].emb = e].person
    ELSE IF e \in DOMAIN fr.sf THEN fr.sf[e].person
    ELSE NoId

\* the neighbours of embedding pt whose Face row is looked up: not the own
\* entry, distance below the threshold
Candidates(e, pt) ==
    {n \in DOMAIN findex \ {e} : Dist(findex[n], pt) < Threshold}

\* the candidates whose Face row has a person
Qualifying(e, pt) == {n \in Candidates(e, pt) : PersonOfEmb(n) # NoId}

NearestOfAll(e, pt) ==
    {n \in Qualifying(e, pt) :
        \A m \in Candidates(e, pt) : Dist(findex[n], pt) <= Dist(findex[m], pt)}

\* distance < best_distance: the qualifying neighbours at the least distance
Nearest(e, pt) ==
    {n \in Qualifying(e, pt) :
        \A m \in Qualifying(e, pt) : Dist(findex[n], pt) <= Dist(findex[m], pt)}

\* the people table as the session sees it
SeenPersons == [i \in DOMAIN persons \cup DOMAIN fr.sp |->
                  IF i \in DOMAIN fr.sp THEN fr.sp[i] ELSE persons[i]]

\* the Photo row is loaded (process_queue line 342) and process_faces(photo)
\* is entered; detect_faces returns dets, or the photo is a video, or
\* detect_faces raises
StartFaces(p, dets) ==
    /\ fr.pc = "idle"
    /\ Len(dets) <= MaxFaces - nface
    /\ \/ /\ ~IsVideo(p)
          /\ fr' = [IdleResolver EXCEPT
                      !.pc = IF dets = <<>> THEN "f_commit" ELSE "f_add",
                      !.photo = p, !.todo = dets, !.done = (dets = <<>>),
                      !.had = photos[p].has_faces_processed]
       \/ /\ IsVideo(p) \/ dets = <<>>
          /\ fr' = [IdleResolver EXCEPT !.pc = "f_commit", !.photo = p,
                                        !.had = photos[p].has_faces_processed]
    /\ UNCHANGED <<queue, photos, clock, pstate, wk, sess>>
    /\ UNCHANGED <<faces, persons, findex, nface, iindex, resp>>

\* lines 168-190: the Face is added to the session, then its embedding is
\* inserted into the index; an insert that raises ends the step (line 197)
FAdd ==
    /\ fr.pc = "f_add"
    /\ LET e == nface + 1
           sf1 == Put(fr.sf, e, NewFace(fr.photo))
       IN  /\ nface' = e
           /\ \/ /\ findex' = Put(findex, e, Head(fr.todo))
                 /\ fr' = [fr EXCEPT !.pc = "f_match", !.cur = e, !.sf = sf1]
              \/ /\ fr' = [fr EXCEPT !.pc = "f_commit", !.todo = <<>>,
                                     !.sf = sf1]
                 /\ UNCHANGED findex
    /\ UNCHANGED <<queue, photos, clock, pstate, wk, sess>>
    /\ UNCHANGED <<faces, persons, iindex, resp>>

\* lines 232-241: the face takes the person of the match; the photo is added
\* to the person's photos and photo_count recomputed if the person is found
AssignPerson(r, pid) ==
    LET sf1 == [r.sf EXCEPT ![r.cur].person = pid]
        row == SeenPersons[pid]
    IN  IF /\ pid \in DOMAIN SeenPersons
           /\ r.photo \in DOMAIN photos
           /\ r.photo \notin row.photos
        THEN [r EXCEPT !.sf = sf1,
                       !.sp = Put(r.sp, pid,
                                  [row EXCEPT !.photos = @ \cup {r.photo},
                                     !.count = Cardinality(row.photos) + 1])]
        ELSE [r EXCEPT !.sf = sf1]

LeaveUnassigned(r) == r

\* lines 246-263: _create_person_for_face; face.id is read before the flush;
\* the photo is appended if its row is still there
CreatePerson(r) ==
    LET pid == MaxOf(DOMAIN SeenPersons) + 1
        row == [rep |-> r.sf[r.cur].id, count |-> 1,
                photos |-> {r.photo} \cap DOMAIN photos, named |-> FALSE]
        flushed == FlushFaces(r.sf, UsedFaceIds(r.sf))
    IN  [r EXCEPT !.sf = [flushed EXCEPT ![r.cur].person = pid],
                  !.sp = Put(r.sp, pid, row)]

\* after a detection: the next one, or has_faces_processed = True
NextDetection(r) ==
    IF Len(r.todo) > 1
    THEN [r EXCEPT !.pc = "f_add", !.todo = Tail(@), !.cur = NoId]
    ELSE [r EXCEPT !.pc = "f_commit", !.todo = <<>>, !.cur = NoId,
                   !.done = TRUE]

\* line 193, _match_face_to_person: the neighbour query, which may raise
\* (line 197); the first Face lookup flushes the session; then the match or
\* a new person
FMatch ==
    /\ fr.pc = "f_match"
    /\ \/ fr' = [fr EXCEPT !.pc = "f_commit", !.todo = <<>>, !.cur = NoId]
       \/ LET near == Nearest(fr.cur, Head(fr.todo))
              r == IF Candidates(fr.cur, Head(fr.todo)) = {} THEN fr
                   ELSE [fr EXCEPT !.sf = FlushFaces(@, UsedFaceIds(@))]
          IN  IF near = {}
              THEN fr' = NextDetection(CreatePerson(r))
              ELSE \E n \in near :
                     fr' = NextDetection(AssignPerson(r, PersonOfEmb(n)))
    /\ UNCHANGED <<queue, photos, clock, pstate, wk, sess>>
    /\ UNCHANGED <<faces, persons, findex, nface, iindex, resp>>

\* the UPDATE of has_faces_processed finds no row: the photo was deleted after
\* it was loaded (StaleDataError at the commit, the transaction is rolled back)
StaleCommit(r) == r.done /\ ~r.had /\ r.photo \notin DOMAIN photos

\* process_queue line 355 (line 364 after a raise): everything in the session
\* is flushed and becomes durable, or nothing if the flush raises
FCommit ==
    /\ fr.pc = "f_commit"
    /\ IF StaleCommit(fr)
       THEN UNCHANGED <<faces, persons, photos>>
       ELSE /\ LET sf1 == FlushFaces(fr.sf, UsedFaceIds(fr.sf))
                   new == {sf1[e].id : e \in DOMAIN sf1}
                   EmbOf(i) == CHOOSE e \in DOMAIN sf1 : sf1[e].id = i
               IN  faces' = [i \in DOMAIN faces \cup new |->
                               IF i \in DOMAIN faces THEN faces[i]
                               ELSE [photo |-> sf1[EmbOf(i)].photo,
                                     emb |-> EmbOf(i),
                                     person |-> sf1[EmbOf(i)].person]]
            /\ persons' = SeenPersons
            /\ photos' = IF fr.done /\ fr.photo \in DOMAIN photos
                         THEN WritePhoto(photos, fr.photo, {"has_faces_processed"})
                         ELSE photos
    /\ fr' = IdleResolver
    /\ UNCHANGED <<queue, clock, pstate, wk, sess, findex, nface, iindex, resp>>

\* routes/people.py delete_person: the person's faces become unassigned
DeletePerson(p) ==
    /\ p \in DOMAIN persons
    /\ faces' = [f \in DOMAIN faces |->
                   IF faces[f].person = p
                   THEN [faces[f] EXCEPT !.person = NoId] ELSE faces[f]]
    /\ persons' = [i \in DOMAIN persons \ {p} |-> persons[i]]
    /\ resp' = NoResponse
    /\ UNCHANGED <<queue, photos, clock, pstate, wk, sess, findex, nface, fr>>
    /\ UNCHANGED iindex

NoWriteLock(r) == FALSE

\* the session of the run has flushed and its connection holds the write lock
\* of the SQLite file until the commit: requests that write wait for it
HoldsWriteLock(r) == \E e \in DOMAIN r.sf : r.sf[e].id # NoId

\* person ids a request may name: the persons there are and one there is not
RequestIds == DOMAIN persons \cup {MaxOf(DOMAIN persons) + 1}

MergeCheckNoSelf(a, b) ==
    IF a \notin DOMAIN persons \/ b \notin DOMAIN persons THEN "not_found"
    ELSE "merged"

\* routes/people.py merge_people, lines 86-93: 404 and 400
MergeCheck(a, b) ==
    IF a \notin DOMAIN persons \/ b \notin DOMAIN persons THEN "not_found"
    ELSE IF a = b THEN "self"
    ELSE "merged"

\* routes/people.py merge_people: the faces of b go to a, a takes the photos
\* of b, photo_count is recomputed, b is deleted; a rejected request changes
\* nothing.  fr.overlap records that a merge was committed while a detected
\* face waited for its lookup.
MergePeople(a, b) ==
    /\ resp' = NoResponse
    /\ fr' = IF MergeCheck(a, b) = "merged" /\ fr.pc \in {"f_add", "f_match"}
             THEN [fr EXCEPT !.overlap = TRUE] ELSE fr
    /\ IF MergeCheck(a, b) # "merged"
       THEN UNCHANGED <<faces, persons>>
       ELSE /\ faces' = [f \in DOMAIN faces |->
                           IF faces[f].person = b
                           THEN [faces[f] EXCEPT !.person = a] ELSE faces[f]]
            /\ persons' = [i \in DOMAIN persons \ {b} |->
                             IF i = a
                             THEN [persons[a] EXCEPT
                                     !.photos = @ \cup persons[b].photos,
                                     !.count = Cardinality(
                                         persons[a].photos \cup persons[b].photos)]
                             ELSE persons[i]]
    /\ UNCHANGED <<queue, photos, clock, pstate, wk, sess, findex, nface>>
    /\ UNCHANGED iindex

\* routes/photos.py delete_photo: the delete sets photo_id of the photo's
\* faces to NULL, which the NOT NULL column refuses (the commit raises and
\* nothing changes); a photo without faces goes with its photo_people rows
DeletePhoto(p) ==
    /\ p \in DOMAIN photos
    /\ IF \E f \in DOMAIN faces : faces[f].photo = p
       THEN UNCHANGED <<photos, persons>>
       ELSE /\ photos' = [x \in DOMAIN photos \ {p} |-> photos[x]]
            /\ persons' = [i \in DOMAIN persons |->
                             [persons[i] EXCEPT !.photos = @ \ {p}]]
    /\ resp' = NoResponse
    /\ UNCHANGED <<queue, clock, pstate, wk, sess, faces, findex, nface, fr>>
    /\ UNCHANGED iindex

-----------------------------------------------------------------------------
(* Search: SearchService.semantic_search and combined_search with a text   *)
(* query.  iindex is the image index as the query sees it: the photo ids   *)
(* of its entries, nearest to the query text first.                        *)

SearchIds == 1..MaxPhotos
\* limit and offset of a request
Limits == {1, 2}
Offsets == 0..MaxPhotos
\* people_ids of a request: none, a person with photos, a person not there
PeopleFilters == {{}, {1}, {2}}

Range(s) == {s[i] : i \in 1..Len(s)}

DropNone(s, n) == s

\* the entries with i >= offset (lines 39-41)
Drop(s, n) == SubSeq(s, n + 1, Len(s))

\* image_collection.query(n_results=n): the n nearest entries
IndexQuery(n) == Take(iindex, n)

\* the ids no longer in the photos table stay in the list
SemanticSearchUnchecked(limit, offset) ==
    Take(Drop(IndexQuery(limit + offset), offset), limit)

\* semantic_search, lines 29-50: the entries from position offset on, at most
\* limit of them, and of those the photos the table still has, in that order
SemanticSearch(limit, offset) ==
    LET found == IndexQuery(limit + offset)
        photo_ids == Take(Drop(found, offset), limit)
        InTable(p) == p \in DOMAIN photos
    IN  IF found = <<>> THEN <<>> ELSE SelectSeq(photo_ids, InTable)

\* Photo.people.any(Person.id.in_(people_ids)); no filter for an empty list
HasPeople(p, people_ids) ==
    \/ people_ids = {}
    \/ \E q \in people_ids \cap DOMAIN persons : p \in persons[q].photos

\* query.all() without ORDER BY: the rows in primary-key order
RECURSIVE Ascending(_)
Ascending(S) ==
    IF S = {} THEN <<>>
    ELSE LET least == CHOOSE x \in S : \A y \in S : x <= y
         IN  <<least>> \o Ascending(S \ {least})

\* id_order: the position of a photo in the semantic result
IdOrder(sem, p) == CHOOSE i \in 1..Len(sem) : sem[i] = p

KeepFetchOrder(rows, sem) == rows

\* filtered_photos.sort(key=id_order): insertion of each row by its key
RECURSIVE SortByRank(_, _)
SortByRank(rows, sem) ==
    IF rows = <<>> THEN <<>>
    ELSE LET rest == SortByRank(Tail(rows), sem)
             key == IdOrder(sem, Head(rows))
             Lower(p) == IdOrder(sem, p) < key
             Higher(p) == IdOrder(sem, p) >= key
         IN  SelectSeq(rest, Lower) \o <<Head(rows)>> \o SelectSeq(rest, Higher)

\* combined_search with text, lines 137-174: the first 3 * limit semantic
\* results, filtered in the table, sorted back by rank, then paginated
CombinedSearch(people_ids, limit, offset) ==
    LET sem == SemanticSearch(limit * 3, 0)
        rows == Ascending({p \in Range(sem) \cap DOMAIN photos :
                              HasPeople(p, people_ids)})
        filtered_photos == SortByRank(rows, sem)
    IN  IF sem = <<>> THEN <<>>
        ELSE SubSeq(filtered_photos, offset + 1,
                    Min2(offset + limit, Len(filtered_photos)))

\* generate_embeddings, lines 145-154: the image gets an entry in the index
\* under its photo id; k is its rank for the query text
IndexImage(p, k) ==
    /\ p \in DOMAIN photos
    /\ ~IsVideo(p)
    /\ p \notin Range(iindex)
    /\ k \in 1..(Len(iindex) + 1)
    /\ iindex' = SubSeq(iindex, 1, k - 1) \o <<p>> \o SubSeq(iindex, k, Len(iindex))
    /\ photos' = WritePhoto(photos, p, {"has_embeddings"})
    /\ UNCHANGED <<queue, clock, pstate, wk, sess, faces, persons, findex, nface,
                   fr, resp>>

\* GET /search/semantic
SemanticSearchCall(limit, offset) ==
    /\ resp' = [op |-> "semantic", limit |-> limit, offset |-> offset,
                people |-> {}, out |-> SemanticSearch(limit, offset)]
    /\ UNCHANGED <<queue, photos, clock, pstate, wk, sess, faces, persons,
                   findex, nface, fr, iindex>>

\* POST /search with a text
CombinedSearchCall(people_ids, limit, offset) ==
    /\ resp' = [op |-> "combined", limit |-> limit, offset |-> offset,
                people |-> people_ids,
                out |-> CombinedSearch(people_ids, limit, offset)]
    /\ UNCHANGED <<queue, photos, clock, pstate, wk, sess, faces, persons,
                   findex, nface, fr, iindex>>

-----------------------------------------------------------------------------

\* the requests that add work: queue-all / queue-faces / reprocess, requeue-videos
ClientSteps ==
    \/ \E p \in PhotoIds, t \in TaskTypes : Enqueue(p, t)
    \/ RequeueVideos

\* POST /processing/start on the threads W
BatchSteps(W) ==
    \/ \E w \in W, n \in BatchSizes : StartBatch(w, n)
    \/ \E w \in W : BSelect(w)
    \/ \E w \in W : BMark(w)
    \/ \E w \in W : BDispatch(w)
    \/ \E w \in W : BCommit(w)
    \/ \E w \in W : BFinish(w)

\* POST /processing/start-continuous on the threads W, and POST /processing/stop
ContSteps(W) ==
    \/ RequestStop
    \/ \E w \in W, m \in MaxChoices : StartCont(w, m)
    \/ \E w \in W : CStart(w)
    \/ \E w \in W : CCount(w)
    \/ \E w \in W : ObserveStop(w)
    \/ \E w \in W : CTop(w)
    \/ \E w \in W : CSelect(w)
    \/ \E w \in W : CMark(w)
    \/ \E w \in W : CPhoto(w)
    \/ \E w \in W : CThumb(w)
    \/ \E w \in W : CEmbed(w)
    \/ \E w \in W : CFaces(w)
    \/ \E w \in W : CTags(w)
    \/ \E w \in W : CCommit(w)
    \/ \E w \in W : CFinish(w)
    \/ \E w \in W : CExit(w)

EndSteps == \E w \in Workers : ThreadEnd(w)

\* every thread may run batches and continuous runs
Next == ClientSteps \/ BatchSteps(Workers) \/ ContSteps(Workers) \/ EndSteps

Spec == Init /\ [][Next]_vars

\* one scheduler thread at a time (the design assumption of the pipeline)
NextSolo == ClientSteps \/ BatchSteps({"w1"}) \/ ContSteps({"w1"}) \/ EndSteps

SpecSolo == Init /\ [][NextSolo]_vars

SpecSoloCrash == Init /\ [][NextSolo \/ Crash]_vars

\* the runs start on a queue that already holds a pending row for the video
InitBacklog ==
    /\ queue = InsertRow(<<>>, NewItem(2, "full", 0, 0))
    /\ photos = [p \in PhotoIds |-> InitPhoto(p = 2)]
    /\ clock = 0
    /\ pstate = InitPState
    /\ wk = [w \in Workers |-> IdleWorker]
    /\ sess = [w \in Workers |-> CleanSession]
    /\ faces = <<>>
    /\ persons = <<>>
    /\ findex = <<>>
    /\ nface = 0
    /\ fr = IdleResolver
    /\ iindex = <<>>
    /\ resp = NoResponse

SpecBacklog == InitBacklog /\ [][NextSolo]_vars

\* the steps a background task takes by itself once it was started: the
\* thread of the task is scheduled until the task returns or raises
TaskSteps(w) ==
    \/ BSelect(w) \/ BMark(w) \/ BDispatch(w) \/ BCommit(w) \/ BFinish(w)
    \/ CStart(w) \/ CCount(w) \/ ObserveStop(w) \/ CTop(w) \/ CSelect(w)
    \/ CMark(w) \/ CPhoto(w) \/ CThumb(w) \/ CEmbed(w) \/ CFaces(w)
    \/ CTags(w) \/ CCommit(w) \/ CFinish(w) \/ CExit(w) \/ ThreadEnd(w)

\* the same runs with a thread that is never starved
SpecBacklogFair == SpecBacklog /\ WF_vars(TaskSteps("w1"))

\* runs, crashes and restarts, with a thread that is never starved while the
\* process is up
SpecSoloCrashFair == SpecSoloCrash /\ WF_vars(TaskSteps("w1"))

\* the runs of one thread on a queue filled by enqueue, with
\* DELETE /photos/{id} in between; a photo is deleted while no session has it
\* loaded
NextGone ==
    \/ \E p \in PhotoIds, t \in TaskTypes : Enqueue(p, t)
    \/ BatchSteps({"w1"})
    \/ ContSteps({"w1"})
    \/ EndSteps
    \/ \E p \in DOMAIN photos :
          /\ \A w \in Workers : sess[w].photo # p
          /\ DeletePhoto(p)

SpecGone == Init /\ [][NextGone]_vars

\* two concurrent POST /processing/start on a queue filled by enqueue
NextBatch2 ==
    \/ \E p \in PhotoIds, t \in TaskTypes : Enqueue(p, t)
    \/ BatchSteps(Workers)
    \/ EndSteps

SpecBatch2 == Init /\ [][NextBatch2]_vars

\* two concurrent POST /processing/start-continuous on a queue filled by
\* queue_all_unprocessed (a continuous run does not read task_type)
NextCont2 ==
    \/ \E p \in PhotoIds : Enqueue(p, "full")
    \/ ContSteps(Workers)
    \/ EndSteps

SpecCont2 == Init /\ [][NextCont2]_vars

\* face detection on the photos of the library, one step at a time, with the
\* requests on people and photos in between; a request that writes goes
\* through when the run does not hold the write lock, and the photo of the
\* run is not deleted under it
NextFaces ==
    \/ \E p \in DOMAIN photos, dets \in DetSeqs(MaxFaces) : StartFaces(p, dets)
    \/ FAdd
    \/ FMatch
    \/ FCommit
    \/ \E p \in DOMAIN persons : ~HoldsWriteLock(fr) /\ DeletePerson(p)
    \/ \E a, b \in RequestIds : ~HoldsWriteLock(fr) /\ MergePeople(a, b)
    \/ \E p \in DOMAIN photos : ~HoldsWriteLock(fr) /\ DeletePhoto(p)

\* a library of two images, nothing processed yet
InitFaces ==
    /\ photos = [p \in PhotoIds |-> InitPhoto(FALSE)]
    /\ iindex = <<>>
    /\ resp = NoResponse
    /\ faces = <<>>
    /\ persons = <<>>
    /\ findex = <<>>
    /\ nface = 0
    /\ fr = IdleResolver
    /\ queue = <<>>
    /\ clock = 0
    /\ pstate = InitPState
    /\ wk = [w \in Workers |-> IdleWorker]
    /\ sess = [w \in Workers |-> CleanSession]

SpecFaces == InitFaces /\ [][NextFaces]_vars

NextSearch ==
    \/ \E p \in SearchIds, k \in 1..MaxPhotos : IndexImage(p, k)
    \/ \E p \in DOMAIN photos : DeletePhoto(p)
    \/ \E l \in Limits, o \in Offsets : SemanticSearchCall(l, o)
    \/ \E f \in PeopleFilters, l \in Limits, o \in Offsets :
          CombinedSearchCall(f, l, o)

\* a library of images; person 1 has a face on each photo with an odd id
InitSearch ==
    /\ photos = [p \in SearchIds |-> InitPhoto(FALSE)]
    /\ faces = [f \in {(p + 1) \div 2 : p \in {q \in SearchIds : q % 2 = 1}} |->
                  [photo |-> 2 * f - 1, emb |-> f, person |-> 1]]
    /\ persons = [i \in {1} |->
                    [rep |-> 1, photos |-> {q \in SearchIds : q % 2 = 1},
                     count |-> Cardinality({q \in SearchIds : q % 2 = 1}),
                     named |-> FALSE]]
    /\ findex = [f \in {(p + 1) \div 2 : p \in {q \in SearchIds : q % 2 = 1}} |-> 0]
    /\ nface = Cardinality({q \in SearchIds : q % 2 = 1})
    /\ iindex = <<>>
    /\ resp = NoResponse
    /\ fr = IdleResolver
    /\ queue = <<>>
    /\ clock = 0
    /\ pstate = InitPState
    /\ wk = [w \in Workers |-> IdleWorker]
    /\ sess = [w \in Workers |-> CleanSession]

SpecSearch == InitSearch /\ [][NextSearch]_vars

-----------------------------------------------------------------------------
(* Properties *)

\* the same row before and after a step: ids are reused once a row is deleted
SameRow(i) ==
    /\ i \in DOMAIN queue
    /\ i \in DOMAIN queue'
    /\ queue[i].created = queue'[i].created

AllowedChange(a, b) ==
    \/ a = b
    \/ a = "pending" /\ b = "processing"
    \/ a = "processing" /\ b \in Terminal

\* C1: in every interleaving of enqueue, runBatch and runContinuous each
\* status change of a queue item is pending->processing, processing->completed
\* or processing->failed, and a completed or failed item never changes status
\* again.
C1_StatusTransitions ==
    [][\A i \in DOMAIN queue :
          SameRow(i) => AllowedChange(queue[i].status, queue'[i].status)]_vars

-----------------------------------------------------------------------------

\* the positions of process_continuous after the guard and before its return
LoopPcs == {"c_count", "c_top", "c_select", "c_mark", "c_photo", "c_thumb",
            "c_embed", "c_faces", "c_tags", "c_commit", "c_finish", "c_exit"}

Active == {w \in Workers : wk[w].pc \in LoopPcs}

\* C2: of two concurrent runContinuous invocations at most one is ever inside
\* the run while is_running is true; an invocation that finds the flag clear
\* becomes the active run, one that finds it set returns 0 at once, changes
\* no queue item, no photo and nothing of the progress record.
C2_SingleFlight ==
    /\ [](Cardinality(Active) <= 1 /\ (Active # {} => pstate.is_running))
    /\ [][\A w \in Workers :
            (wk[w].pc = "c_start" /\ wk'[w] # wk[w]) =>
                IF pstate.is_running
                THEN /\ wk'[w].pc = "done"
                     /\ wk'[w].ret = 0
                     /\ queue' = queue
                     /\ photos' = photos
                     /\ pstate' = pstate
                ELSE /\ wk'[w].pc = "c_count"
                     /\ pstate'.is_running]_vars

\* one invocation is the active run with an item in hand, the other one has
\* been refused and has returned 0
C2_Witness ==
    \E a, b \in Workers :
        /\ wk[a].pc = "c_photo"
        /\ wk[b].pc = "done" /\ wk[b].kind = "refused" /\ wk[b].ret = 0

\* the positions of process_continuous at which its item is in hand
ItemPcs == {"c_photo", "c_thumb", "c_embed", "c_faces", "c_tags", "c_commit",
            "c_finish"}

\* C3: a requestStop that arrives while a continuous run has an item in
\* processing does not cut the item short: the run leaves the item only with
\* the item completed or failed (as long as the row exists), it reaches its
\* exit only from the top of an iteration, a run that reads the flag set moves
\* no further item and its exit clears is_running.
C3_StopAtItemBoundary ==
    [][\A w \in Workers :
        /\ (wk[w].pc \in ItemPcs /\ wk'[w].pc \notin ItemPcs
                /\ wk[w].cur \in DOMAIN queue')
              => queue'[wk[w].cur].status \in Terminal
        /\ (wk[w].pc # "c_exit" /\ wk'[w].pc = "c_exit")
              => wk[w].pc \in {"c_top", "c_select"}
        /\ (wk[w].pc = "c_top" /\ pstate.stop_requested /\ wk'[w] # wk[w])
              => wk'[w].pc = "c_exit" /\ queue' = queue
        /\ (wk[w].pc = "c_exit" /\ wk'[w] # wk[w])
              => /\ wk'[w].pc = "done"
                 /\ ~pstate'.is_running
                 /\ queue' = queue]_vars

\* the stop flag is set while the run is about to finish an item that is in
\* status processing
C3_Witness ==
    \E w \in Workers :
        /\ wk[w].pc = "c_finish"
        /\ pstate.stop_requested
        /\ wk[w].cur \in DOMAIN queue
        /\ queue[wk[w].cur].status = "processing"

\* C4: a failed queue item is never modified again, and what a run selects
\* (the snapshot of runBatch, the next item of runContinuous) are pending
\* items only; a photo is worked on again only through another queue row.
C4_FailedNotRetried ==
    [][/\ \A i \in DOMAIN queue :
            (queue[i].status = "failed" /\ SameRow(i)) => queue'[i] = queue[i]
       /\ \A w \in Workers :
            (wk[w].pc \in {"b_select", "c_select"}
                /\ wk'[w].pc \in {"b_mark", "c_mark"})
              => \A k \in 1..Len(wk'[w].items) :
                    /\ wk'[w].items[k].id \in DOMAIN queue
                    /\ queue[wk'[w].items[k].id].status = "pending"]_vars

\* a photo whose item failed in an earlier run is being processed again by a
\* later batch through another row
C4_Witness ==
    \E w \in Workers, i \in DOMAIN queue :
        /\ queue[i].status = "failed"
        /\ wk[w].pc = "b_dispatch"
        /\ Len(wk[w].items) = 1
        /\ wk[w].cur \in DOMAIN queue \ {i}
        /\ queue[wk[w].cur].photo = queue[i].photo
        /\ queue[wk[w].cur].status = "processing"

\* the items of a batch that precede the one in hand, as far as their rows
\* still exist
EarlierItems(w) ==
    {k \in 1..(wk[w].idx - 1) :
        /\ wk[w].items[k].id \in DOMAIN queue
        /\ queue[wk[w].items[k].id].created = wk[w].items[k].created}

\* C5: while runBatch works on an item, every earlier item of the batch is
\* completed or failed in the durable store, a completed item of task full
\* has its photo committed as processed, and nothing uncommitted is carried
\* to the next item; a run that ends without returning (crash) changes
\* nothing in the durable store, so these items stay as they are.
C5_PriorItemsDurable ==
    /\ [](\A w \in Workers :
            wk[w].pc \in {"b_mark", "b_dispatch", "b_commit", "b_finish"} =>
                /\ \A k \in EarlierItems(w) :
                      LET r == queue[wk[w].items[k].id]
                      IN  /\ r.status \in Terminal
                          /\ (r.status = "completed" /\ r.task = "full")
                                => photos[r.photo].is_processed
                /\ wk[w].pc = "b_mark" => sess[w] = CleanSession)
    /\ [][\A w \in Workers :
            (wk[w].pc \notin {"idle", "done"} /\ wk'[w].pc = "idle")
              => queue' = queue /\ photos' = photos]_vars

\* a batch is at work on its second item with the first one completed: a
\* crash here finds the first item durable
C5_Witness ==
    \E w \in Workers :
        /\ wk[w].pc = "b_dispatch"
        /\ wk[w].idx = 2
        /\ 1 \in EarlierItems(w)
        /\ queue[wk[w].items[1].id].status = "completed"
        /\ photos[queue[wk[w].items[1].id].photo].is_processed
        /\ queue[wk[w].cur].status = "processing"

\* C6: the photo's field updates and the item's terminal status become
\* durable in one commit: every step that makes a photo durably processed
\* also takes the item in hand out of status processing.
C6_AtomicPerItem ==
    [][\A w \in Workers :
        (/\ wk[w].cur \in DOMAIN queue
         /\ queue[wk[w].cur].status = "processing"
         /\ ~photos[queue[wk[w].cur].photo].is_processed
         /\ photos'[queue[wk[w].cur].photo].is_processed)
          => (/\ wk[w].cur \in DOMAIN queue'
              /\ queue'[wk[w].cur].status \in Terminal)]_vars

\* row i comes before row j: higher priority first, then the older insertion
ComesFirst(q, i, j) ==
    \/ q[i].priority > q[j].priority
    \/ q[i].priority = q[j].priority /\ q[i].created < q[j].created

\* the ids of the rows a worker's snapshot names
Selected(r) == {r.items[k].id : k \in 1..Len(r.items)}

BatchFinishes(w) ==
    /\ wk[w].pc = "b_finish"
    /\ wk'[w].pc # "b_finish"
    /\ wk[w].cur \in DOMAIN queue

\* C8 as stated: the item ends completed if nothing failed and failed with
\* an error message if anything failed while it was processed.
C8_AnyFailureFails ==
    [][\A w \in Workers :
        BatchFinishes(w) =>
            IF wk[w].out = "ok"
            THEN queue'[wk[w].cur].status = "completed"
            ELSE /\ queue'[wk[w].cur].status = "failed"
                 /\ queue'[wk[w].cur].err]_vars

\* the rows of a worker's snapshot that are completed after the step
CompletedOf(w) ==
    {k \in 1..Len(wk[w].items) :
        /\ wk[w].items[k].id \in DOMAIN queue'
        /\ queue'[wk[w].items[k].id].created = wk[w].items[k].created
        /\ queue'[wk[w].items[k].id].status = "completed"}

\* C8: an item handled by runBatch ends failed, with an error message, exactly
\* when an exception leaves the try block (photo lookup or dispatch raising);
\* a failure inside an enrichment step is swallowed by the step and the item
\* ends completed.  The value returned counts the items the run completed:
\* with no row of the batch deleted meanwhile, the completed items of the batch.
C8_ExceptionFails ==
    [][\A w \in Workers :
        /\ BatchFinishes(w) =>
              /\ IF wk[w].out = "raised"
                 THEN /\ queue'[wk[w].cur].status = "failed"
                      /\ queue'[wk[w].cur].err
                 ELSE queue'[wk[w].cur].status = "completed"
              /\ wk'[w].pc = "b_mark" =>
                    wk'[w].processed = wk[w].processed +
                        (IF wk[w].out = "raised" THEN 0 ELSE 1)
        /\ (wk[w].pc = "b_finish" /\ wk'[w].pc = "done") =>
              /\ wk'[w].ret = wk[w].processed +
                        (IF wk[w].out = "raised" THEN 0 ELSE 1)
              /\ (\A k \in 1..Len(wk[w].items) :
                        wk[w].items[k].id \in DOMAIN queue'
                        /\ queue'[wk[w].items[k].id].created
                              = wk[w].items[k].created)
                    => wk'[w].ret = Cardinality(CompletedOf(w))]_vars

\* a batch is about to finish an item one of whose steps failed without
\* raising, after an item whose dispatch raised
C8_Witness ==
    \E w \in Workers :
        /\ wk[w].pc = "b_finish"
        /\ wk[w].out = "stepfail"
        /\ wk[w].idx = 2
        /\ 1 \in EarlierItems(w)
        /\ queue[wk[w].items[1].id].status = "failed"

\* a step that inserts a row by enqueue (requeue_videos inserts priority 1)
EnqueueStep ==
    /\ clock' = clock + 1
    /\ ~\E i \in DOMAIN queue' :
          queue'[i].created = clock' /\ queue'[i].priority = 1

\* C9: enqueue inserts exactly one new pending item and leaves every existing
\* item unchanged, whatever items exist for the same photo and task type.
C9_EnqueueInsertsOne ==
    [][EnqueueStep =>
        \E n \in DOMAIN queue' \ DOMAIN queue :
            /\ DOMAIN queue' = DOMAIN queue \cup {n}
            /\ \A i \in DOMAIN queue : queue'[i] = queue[i]
            /\ queue'[n].status = "pending"
            /\ ~queue'[n].err
            /\ queue'[n].created = clock']_vars

\* two pending items for the same photo and task type, the older one
\* inserted while nothing else was queued: the second call did not deduplicate
C9_Witness ==
    \E i, j \in DOMAIN queue :
        /\ i # j
        /\ queue[i].photo = queue[j].photo
        /\ queue[i].task = queue[j].task
        /\ queue[i].status = "pending"
        /\ queue[j].status = "pending"

\* C10: every Face row that becomes durable has a person, and a face loses
\* its person only in a step that deletes that person.
C10_FacesHavePerson ==
    [][\A f \in DOMAIN faces' :
        /\ f \notin DOMAIN faces => faces'[f].person # NoId
        /\ (f \in DOMAIN faces /\ faces[f].person # NoId
               /\ faces'[f].person = NoId)
             => (faces[f].person \in DOMAIN persons
                   /\ faces[f].person \notin DOMAIN persons')]_vars

\* the photos of the faces that reference person p
PhotosOfFaces(p) == {faces[f].photo : f \in {g \in DOMAIN faces : faces[g].person = p}}

\* C11: in every committed state each person's photo_count is the size of its
\* photo association set, and that set is the set of photos of its faces.
C11_PhotoCount ==
    \A p \in DOMAIN persons :
        /\ persons[p].count = Cardinality(persons[p].photos)
        /\ persons[p].photos = PhotosOfFaces(p)

\* C12: a step that removes a person b and leaves a face of b assigned is a
\* merge into a person a that was there and is not b: every face of b and
\* every face of a is with a, no other face and no other person changes, and
\* a's photo_count is the number of distinct photos of a's faces (photos that
\* are in the store).  A merge of a person with itself or naming a missing
\* person is rejected: it is no step at all, persons and faces stay as they are.
C12_Merge ==
    [][\A b \in DOMAIN persons \ DOMAIN persons' :
         (\E f \in DOMAIN faces : faces[f].person = b /\ faces'[f].person # NoId)
           => \E a \in (DOMAIN persons \cap DOMAIN persons') \ {b} :
                /\ DOMAIN persons' = DOMAIN persons \ {b}
                /\ DOMAIN faces' = DOMAIN faces
                /\ \A f \in DOMAIN faces :
                      /\ faces[f].person \in {a, b} => faces'[f].person = a
                      /\ faces[f].person \notin {a, b} => faces'[f] = faces[f]
                      /\ faces'[f].photo = faces[f].photo
                /\ persons'[a].count =
                      Cardinality({faces'[f].photo :
                                     f \in {g \in DOMAIN faces' : faces'[g].person = a}}
                                  \cap DOMAIN photos)
                /\ \A i \in DOMAIN persons' \ {a} : persons'[i] = persons[i]]_vars

\* two faces too far apart to be matched, on two photos, are with one person
\* and no third face was ever detected: their persons were merged
C12_Witness ==
    /\ fr.pc = "idle"
    /\ nface = 2
    /\ DOMAIN faces = {1, 2}
    /\ {faces[1].emb, faces[2].emb} \subseteq DOMAIN findex
    /\ Dist(findex[faces[1].emb], findex[faces[2].emb]) >= Threshold
    /\ faces[1].photo # faces[2].photo
    /\ \E a \in DOMAIN persons :
          /\ faces[1].person = a
          /\ faces[2].person = a
          /\ persons[a].count = 2

\* C13: whatever the interleaving of merges with resolver runs, no face in
\* the store references a person that is not there, and the person a face is
\* assigned to has the photo of that face, if the photo is in the store, in
\* its photo set and in its count.
C13_MergeAtomic ==
    \A f \in DOMAIN faces :
        faces[f].person # NoId =>
            /\ faces[f].person \in DOMAIN persons
            /\ faces[f].photo \in DOMAIN photos =>
                  /\ faces[f].photo \in persons[faces[f].person].photos
                  /\ persons[faces[f].person].count
                       = Cardinality(persons[faces[f].person].photos)

\* the persons of the two faces in the store were merged while the run that
\* detected a third face, on another photo, was between its detection and
\* its neighbour lookup; the lookup gave that face to the surviving person,
\* whose row in the session has both photos
C13_Witness ==
    /\ fr.pc = "f_commit"
    /\ fr.overlap
    /\ fr.done
    /\ DOMAIN faces = {1, 2}
    /\ DOMAIN fr.sf = {3}
    /\ \E a \in DOMAIN persons \cap DOMAIN fr.sp :
          /\ faces[1].person = a
          /\ faces[2].person = a
          /\ fr.sf[3].person = a
          /\ fr.photo \notin persons[a].photos
          /\ fr.sp[a].photos = persons[a].photos \cup {fr.photo}
          /\ fr.sp[a].count = 2

\* the neighbour lookup of the current face runs against an index that holds
\* nothing but that face's own entry, and the query does not raise
LoneLookup ==
    /\ fr.pc = "f_match"
    /\ DOMAIN findex = {fr.cur}
    /\ fr'.pc # "f_match"
    /\ ~(fr'.pc = "f_commit" /\ ~fr'.done)

\* C14: a face looked up against an index that contains only its own entry
\* gets a person that did not exist before, created for it with one photo
\* counted; its own entry, at distance 0, is not taken as a match.
C14_OwnEntryNoMatch ==
    [][LoneLookup =>
         /\ Dist(findex[fr.cur], Head(fr.todo)) = 0
         /\ \E pid \in DOMAIN fr'.sp \ DOMAIN SeenPersons :
               /\ fr'.sf[fr.cur].person = pid
               /\ fr'.sp[pid].count = 1
               /\ DOMAIN fr'.sp = DOMAIN fr.sp \cup {pid}]_vars

\* the only entry of the index belongs to a face of the running step, and that
\* face has a person of the session
C14_Witness ==
    /\ fr.pc \in {"f_add", "f_commit"}
    /\ \E e \in DOMAIN fr.sf :
          /\ DOMAIN findex = {e}
          /\ fr.sf[e].person \in DOMAIN fr.sp

\* a step that answers a search request
SearchStep(op) ==
    /\ resp' # resp
    /\ resp'.op = op
    /\ UNCHANGED <<photos, persons, iindex>>

\* the entries of the index whose photo is in the table, in rank order
RankedPhotos ==
    LET InTable(p) == p \in DOMAIN photos
    IN  SelectSeq(iindex, InTable)

\* photo p is linked to one of the persons of a request's people_ids
LinkedTo(p, people) == \E q \in people \cap DOMAIN persons : p \in persons[q].photos

\* s is a run of consecutive elements of t
IsSliceOf(s, t) ==
    \E a \in 0..Len(t) : \E n \in 0..(Len(t) - a) : s = SubSeq(t, a + 1, a + n)

\* C15: a combined search with text returns only photos that pass the people
\* filter, and its result is a run of consecutive elements of the semantic
\* ranking with the photos that fail the filter deleted, in rank order.
C15_CombinedFiltered ==
    [][SearchStep("combined") =>
         LET out == resp'.out
             Passes(p) == resp'.people = {} \/ LinkedTo(p, resp'.people)
         IN  /\ \A i \in 1..Len(out) : Passes(out[i])
             /\ IsSliceOf(out, SelectSeq(RankedPhotos, Passes))]_vars

\* photo 2, which person 1 is not on, ranks between photos 3 and 1; the search
\* for person 1 returned 3 before 1
C15_Witness ==
    /\ resp.op = "combined"
    /\ resp.people = {1}
    /\ iindex = <<3, 2, 1>>
    /\ resp.out = <<3, 1>>

\* C16 as stated: a semantic search returns exactly the ids at positions
\* offset .. offset+limit-1 of the ranking of the index.
C16_ExactPositions ==
    [][SearchStep("semantic") =>
         resp'.out = SubSeq(iindex, resp'.offset + 1,
                            Min2(resp'.offset + resp'.limit, Len(iindex)))]_vars

\* C16: for every n the semantic results for (limit n, offset 0) and (limit
\* n, offset n) are disjoint and their concatenation is the result for
\* (limit 2n, offset 0); the result for (limit, offset) is the ids at
\* positions offset .. offset+limit-1 of the ranking whose photo is in the
\* table, in rank order, hence all of these positions when no photo is gone.
C16_Pagination ==
    [][/\ \A n \in Limits :
            /\ SemanticSearch(n, 0) \o SemanticSearch(n, n)
                 = SemanticSearch(2 * n, 0)
            /\ Range(SemanticSearch(n, 0)) \cap Range(SemanticSearch(n, n)) = {}
       /\ SearchStep("semantic") =>
            LET first == resp'.offset + 1
                last == Min2(resp'.offset + resp'.limit, Len(iindex))
                InTable(p) == p \in DOMAIN photos
            IN  /\ resp'.out = SelectSeq(SubSeq(iindex, first, last), InTable)
                /\ (\A i \in first..last : iindex[i] \in DOMAIN photos)
                     => resp'.out = SubSeq(iindex, first, last)]_vars

\* the second page of two of a ranking of three photos
C16_Witness ==
    /\ resp.op = "semantic"
    /\ resp.limit = 2
    /\ resp.offset = 2
    /\ Len(iindex) = 3
    /\ resp.out = <<iindex[3]>>

\* C17: an id of the index whose photo is gone is not in the result of a
\* search, the photos that are there come in rank order, none of the
\* requested positions that is in the table is lost by semantic_search, and an
\* offset past the end gives the empty list.
C17_MissingDropped ==
    [][SearchStep("semantic") \/ SearchStep("combined") =>
         LET out == resp'.out
             Rank(p) == CHOOSE i \in 1..Len(iindex) : iindex[i] = p
         IN  /\ \A i \in 1..Len(out) : out[i] \in DOMAIN photos
             /\ \A i \in 1..Len(out) : out[i] \in Range(iindex)
             /\ \A i, j \in 1..Len(out) : i < j => Rank(out[i]) < Rank(out[j])
             /\ resp'.op = "semantic" =>
                  \A i \in (resp'.offset + 1)..Min2(resp'.offset + resp'.limit,
                                                    Len(iindex)) :
                      iindex[i] \in DOMAIN photos => iindex[i] \in Range(out)
             /\ resp'.offset >= Len(iindex) => out = <<>>]_vars

\* photo 2 was deleted and its entry is still in the index, between two
\* others; the semantic search over these positions returned the other two
C17_Witness ==
    /\ resp.op = "semantic"
    /\ 2 \notin DOMAIN photos
    /\ Len(iindex) = 3
    /\ iindex[2] = 2
    /\ resp.offset = 1
    /\ resp.limit = 2
    /\ resp.out = <<iindex[3]>>

\* worker w runs a batch that selected one item, a task full, whose row is
\* still the row selected, and is at program point pc
SoloFull(w, pc) ==
    /\ wk[w].pc = pc
    /\ wk[w].kind = "batch"
    /\ Len(wk[w].items) = 1
    /\ wk[w].cur \in DOMAIN queue
    /\ Ref(queue, wk[w].cur) = wk[w].items[1]
    /\ queue[wk[w].cur].task = "full"

\* C18 as stated: the batch of one item full returns 1 with the item
\* completed and the photo processed, and a thumbnail is set whenever the
\* source file exists.
C18_SoloBatchAlways ==
    [][\A w \in Workers :
         /\ SoloFull(w, "b_finish") /\ wk'[w].pc = "done" =>
              /\ wk'[w].ret = 1
              /\ queue'[wk[w].cur].status = "completed"
              /\ photos[queue[wk[w].cur].photo].is_processed
         /\ SoloFull(w, "b_commit") /\ wk'[w].pc = "b_finish" =>
              (wk[w].out = "nofile" \/ photos'[queue[wk[w].cur].photo].thumb)]_vars

\* C18: the batch of one item full changes no other queue row; if the
\* processing does not raise it returns 1 with the item completed, the
\* photo's is_processed set, and a thumbnail set if the source file could be
\* read; if it raises, the item is failed and the batch returns 0.
C18_SoloBatch ==
    [][\A w \in Workers :
         /\ SoloFull(w, "b_finish") /\ wk'[w].pc = "done" =>
              /\ \A j \in DOMAIN queue \ {wk[w].cur} :
                    j \in DOMAIN queue' /\ queue'[j] = queue[j]
              /\ wk[w].out # "raised" =>
                   /\ wk'[w].ret = 1
                   /\ queue'[wk[w].cur].status = "completed"
              /\ wk[w].out = "raised" =>
                   /\ wk'[w].ret = 0
                   /\ queue'[wk[w].cur].status = "failed"
         /\ SoloFull(w, "b_commit") /\ wk'[w].pc = "b_finish" =>
              /\ photos'[queue[wk[w].cur].photo].is_processed
              /\ wk[w].out = "ok" => photos'[queue[wk[w].cur].photo].thumb]_vars

\* a batch has returned 1; the queue holds one row, a completed task full of
\* a photo that is processed and has its thumbnails
C18_Witness ==
    \E w \in Workers :
        /\ wk[w].pc = "done"
        /\ wk[w].kind = "batch"
        /\ wk[w].ret = 1
        /\ DOMAIN queue = {1}
        /\ queue[1].task = "full"
        /\ queue[1].status = "completed"
        /\ photos[queue[1].photo].is_processed
        /\ photos[queue[1].photo].thumb

\* worker w is inside the loop of process_queue or process_continuous
InLoop(w) == wk[w].pc \notin {"idle", "done", "b_select", "c_start", "c_exit"}

\* C19: when the processing of an item has raised, the finishing step marks
\* that item failed with its error recorded and changes no other row, and the
\* run goes on with the loop; a run leaves its loop only by returning: the
\* batch or the pending queue is exhausted, max_items is reached or a stop was
\* requested.
C19_FailureIsolated ==
    [][\A w \in Workers :
         /\ wk[w].pc \in {"b_finish", "c_finish"} /\ wk[w].out = "raised"
               /\ wk[w].cur \in DOMAIN queue /\ wk'[w] # wk[w] =>
              /\ queue'[wk[w].cur].status = "failed"
              /\ queue'[wk[w].cur].err
              /\ \A j \in DOMAIN queue \ {wk[w].cur} :
                    j \in DOMAIN queue' /\ queue'[j] = queue[j]
              /\ wk'[w].pc \in {"b_mark", "c_top", "done"}
         /\ InLoop(w) => wk'[w].pc # "idle"]_vars

\* C20: the item a continuous run selects is pending and of maximal priority
\* among the pending items of the queue as it is when the selection is made.
C20_FreshestTop ==
    [][\A w \in Workers :
         wk[w].pc = "c_select" /\ wk'[w].pc = "c_mark" =>
            LET i == wk'[w].items[1].id
            IN  /\ i \in PendingIds(queue)
                /\ Ref(queue, i) = wk'[w].items[1]
                /\ \A j \in PendingIds(queue) :
                      queue[j].priority <= queue[i].priority]_vars

\* the run counted one pending item when it started; a row of priority 1 was
\* added since and is the one selected, ahead of the older pending row
C20_Witness ==
    \E w \in Workers :
        /\ wk[w].pc = "c_mark"
        /\ pstate.total_count = 1
        /\ wk[w].processed = 0
        /\ LET i == wk[w].items[1].id
           IN  /\ i \in DOMAIN queue
               /\ queue[i].priority = 1
               /\ \E j \in PendingIds(queue) :
                     j < i /\ queue[j].priority = 0

-----------------------------------------------------------------------------

\* C21: a continuous run started with max_items = N, N >= 0, has taken at most
\* N items out of pending, failed ones counted; and the loop leaves towards
\* its end when stop is requested, when processed has reached max_items and
\* when no item is pending.
C21_MaxItemsBound ==
    /\ [](\A w \in Workers :
            (wk[w].kind = "cont" /\ wk[w].max # NoMax)
               => wk[w].moved <= wk[w].max)
    /\ [][\A w \in Workers :
            /\ (wk[w].pc = "c_top" /\ wk'[w] # wk[w]
                  /\ (pstate.stop_requested
                        \/ (wk[w].max # NoMax /\ wk[w].processed >= wk[w].max)))
                 => wk'[w].pc = "c_exit"
            /\ (wk[w].pc = "c_select" /\ wk'[w] # wk[w]
                  /\ PendingIds(queue) = {})
                 => wk'[w].pc = "c_exit"]_vars

-----------------------------------------------------------------------------

\* the neighbour query of the face in hand has returned and the face is resolved
Resolves ==
    /\ fr.pc = "f_match"
    /\ fr'.pc # "f_match"
    /\ ~(fr'.pc = "f_commit" /\ ~fr'.done)

\* the entries other than the face's own, nearer than the threshold, whose
\* Face row has a person
Eligible == {n \in DOMAIN findex \ {fr.cur} :
                /\ Dist(findex[n], Head(fr.todo)) < Threshold
                /\ PersonOfEmb(n) # NoId}

\* C22: the face is given the person of an eligible neighbour at the least
\* distance among the eligible ones, whatever nearer entries without a person
\* there are; with no eligible neighbour it is given a person that did not
\* exist before.
C22_NearestQualifying ==
    [][Resolves =>
         IF Eligible # {}
         THEN \E n \in Eligible :
                /\ \A m \in Eligible :
                      Dist(findex[n], Head(fr.todo)) <= Dist(findex[m], Head(fr.todo))
                /\ fr'.sf[fr.cur].person = PersonOfEmb(n)
         ELSE /\ fr'.sf[fr.cur].person \notin DOMAIN persons \cup DOMAIN fr.sp
              /\ fr'.sf[fr.cur].person \in DOMAIN fr'.sp]_vars

\* the last face of the run has the person of a neighbour although an entry
\* without a person is nearer to it
C22_Witness ==
    /\ fr.pc = "f_commit"
    /\ fr.done
    /\ \E e \in DOMAIN fr.sf \cap DOMAIN findex :
         \E n, m \in DOMAIN findex \ {e} :
            /\ PersonOfEmb(n) = NoId
            /\ PersonOfEmb(m) # NoId
            /\ fr.sf[e].person = PersonOfEmb(m)
            /\ Dist(findex[n], findex[e]) < Dist(findex[m], findex[e])
            /\ Dist(findex[m], findex[e]) < Threshold

-----------------------------------------------------------------------------

\* C23: a person the resolver creates for the face in hand is unnamed, has
\* photo_count 1, has the id of the face's row as its representative face,
\* which is not null, and is linked to the photo of the face and no other.
C23_NewPerson ==
    [][Resolves =>
         \A pid \in DOMAIN fr'.sp \ (DOMAIN persons \cup DOMAIN fr.sp) :
            /\ fr'.sf[fr.cur].person = pid
            /\ ~fr'.sp[pid].named
            /\ fr'.sp[pid].count = 1
            /\ fr'.sp[pid].rep # NoId
            /\ fr'.sp[pid].rep = fr'.sf[fr.cur].id
            /\ fr'.sp[pid].photos = {fr.photo}]_vars

-----------------------------------------------------------------------------

\* C24: every committed Face row has an entry under its embedding_id in the
\* face index.
C24_FacesIndexed == \A f \in DOMAIN faces : faces[f].emb \in DOMAIN findex

-----------------------------------------------------------------------------

\* C25: a run takes an item for enrichment only if no run has taken it
\* before: the row a worker marks as processing is pending when it is marked,
\* and no two workers hold the same item.
C25_DispatchedOnce ==
    /\ [][\A w \in Workers :
            (wk[w].pc \in {"b_mark", "c_mark"}
               /\ wk'[w].pc \in {"b_dispatch", "c_photo"})
              => queue[wk'[w].cur].status = "pending"]_vars
    /\ [](\A v, w \in Workers :
            (v # w /\ wk[v].cur # NoId) => wk[v].cur # wk[w].cur)

-----------------------------------------------------------------------------

\* C26: whenever is_running is true it is false again later, whatever way
\* the run that set it ends.
C26_RunningCleared == pstate.is_running ~> ~pstate.is_running

-----------------------------------------------------------------------------

\* C27: a queue row that is processing is completed or failed later (or the
\* row is deleted by a requeue), also across a crash and restart.
C27_ProcessingEnds ==
    \A i \in 1..MaxQueue :
        (i \in DOMAIN queue /\ queue[i].status = "processing")
           ~> (i \notin DOMAIN queue \/ queue[i].status \in Terminal)

-----------------------------------------------------------------------------

\* C28: processed_count never exceeds total_count; and a run without
\* max_items and without a stop request that ends on an empty queue has
\* processed_count = total_count only if none of its items failed.
C28_ProgressBounded ==
    /\ [](pstate.processed_count <= pstate.total_count)
    /\ [][\A w \in Workers :
            (/\ wk[w].pc = "c_select"
             /\ wk'[w].pc = "c_exit"
             /\ wk[w].max = NoMax
             /\ ~pstate.stop_requested
             /\ pstate.processed_count = pstate.total_count)
              => wk[w].moved = wk[w].processed]_vars

-----------------------------------------------------------------------------

\* C29: with a text and no filter, combined_search returns what
\* semantic_search returns for the same limit and offset.
C29_CombinedIsSemantic ==
    \A l \in Limits, o \in Offsets :
        CombinedSearch({}, l, o) = SemanticSearch(l, o)

-----------------------------------------------------------------------------

\* C30: an item whose photo is not in the table when the run looks it up
\* skips every enrichment step and leaves the photos as they are, and the
\* item is then completed and counted: in the number runBatch returns, in
\* processed and in processed_count.
C30_MissingPhotoCompleted ==
    [][\A w \in Workers :
         /\ (/\ wk[w].pc \in {"b_dispatch", "c_photo"}
             /\ wk'[w] # wk[w]
             /\ wk[w].cur \in DOMAIN queue
             /\ queue[wk[w].cur].photo \notin DOMAIN photos
             /\ wk'[w].out # "raised")
              => /\ wk'[w].pc \in {"b_finish", "c_finish"}
                 /\ wk'[w].out = "nophoto"
                 /\ sess'[w] = CleanSession
                 /\ photos' = photos
                 /\ pstate' = pstate
         /\ (/\ wk[w].pc \in {"b_finish", "c_finish"}
             /\ wk'[w] # wk[w]
             /\ wk[w].out = "nophoto")
              => /\ wk[w].cur \in DOMAIN queue'
                 /\ queue'[wk[w].cur].status = "completed"
                 /\ photos' = photos
                 /\ IF wk'[w].pc = "done"
                    THEN wk'[w].ret = wk[w].processed + 1
                    ELSE wk'[w].processed = wk[w].processed + 1
                 /\ wk[w].pc = "c_finish"
                      => pstate'.processed_count = wk[w].processed + 1]_vars

\* a run has looked up the photo of the item it holds and has not found it
C30_Witness ==
    \E w \in Workers :
        /\ wk[w].pc \in {"b_finish", "c_finish"}
        /\ wk[w].out = "nophoto"
        /\ queue[wk[w].cur].status = "processing"
        /\ queue[wk[w].cur].photo \notin DOMAIN photos

====
